---- MODULE Spec2Model ----
(***************************************************************************)
(* The ShowResults component of src/pages/showResults.js (lines 1-321):    *)
(* its React state, the quote cache rawStockData, and the handler          *)
(* updateChartV2 with the valuation it computes.  The component's other    *)
(* version (lines 322-605 of the same file, and src/pages/index.js), with  *)
(* the handler updateChart over a flat list of records, is the second      *)
(* specification SpecFlat.                                                 *)
(*                                                                         *)
(* Numbers.  JavaScript numbers are modelled as exact rationals <<n, d>>   *)
(* in lowest terms (d > 0), so that equality of values is equality of      *)
(* tuples.  toFixed(2) yields a decimal string with two fraction digits;   *)
(* the string "123.45" is modelled by the integer 12345 (its cents).       *)
(*                                                                         *)
(* Dates.  A datetime string "YYYY-MM-DD" is modelled by its day number;   *)
(* DateMs gives the timestamp new Date(s) yields for it.                   *)
(*                                                                         *)
(* null.  chartSeries = <<>> stands for null: the array updateChartV2      *)
(* sets always holds the "Total" series, so it is never empty.             *)
(***************************************************************************)
EXTENDS Integers, Sequences, FiniteSets, TLC

\* ---------------------------------------------------------------- bounds

\* Longest "values" list of one symbol in the payload.
MaxQuotes == 3

\* Longest flat list of records ("data") updateChart reads.
MaxRecords == 3

\* ------------------------------------------------------------ JS numbers

RECURSIVE GCD(_, _)
GCD(a, b) == IF b = 0 THEN a ELSE GCD(b, a % b)

Abs(x) == IF x < 0 THEN -x ELSE x

\* The number n/d, d > 0, in lowest terms.
Rat(n, d) == LET g == GCD(Abs(n), d) IN <<n \div g, d \div g>>

Zero == Rat(0, 1)

RAdd(a, b) == Rat(a[1] * b[2] + b[1] * a[2], a[2] * b[2])
RMul(a, b) == Rat(a[1] * b[1], a[2] * b[2])
\* a / b for b > 0 (every closing price of the payloads below is positive).
RDiv(a, b) == Rat(a[1] * b[2], a[2] * b[1])

\* Number.prototype.toFixed(2) of a value >= 0: the integer n for which
\* n/100 - x is closest to zero, the larger n on a tie; as cents.
toFixed2(x) == (200 * x[1] + x[2]) \div (2 * x[2])

\* ------------------------------------------------------------- the inputs

Symbols == {"A", "B"}

\* The days a quote can be dated.
Dates == {1, 2, 3}

\* new Date(datetime) as a number (line 222), for a "YYYY-MM-DD" string:
\* the milliseconds of its day.
DateMs(date) == date * 86400000

\* The closing price of `symbol` on `date`, as the k-th record (k >= 0) of
\* that date in the symbol's list: a repeated date carries another price.
Close(symbol, date, k) ==
    Rat((IF symbol = "A" THEN 100 ELSE 50) * date + 7 * k, 1)

\* The number of records of `dates` before position i that carry dates[i].
Earlier(dates, i) == Cardinality({j \in 1..(i - 1) : dates[j] = dates[i]})

\* The "values" list of `symbol` whose records are dated `dates`, in order.
ValuesOf(symbol, dates) ==
    [i \in 1..Len(dates) |->
        [datetime |-> dates[i], close |-> Close(symbol, dates[i], Earlier(dates, i))]]

DateLists(n) == UNION {[1..k -> Dates] : k \in 0..n}

\* stockData[symbol]: undefined, an error object without values, or an
\* object with a status and a values list.
Undefined == [exists |-> FALSE, status |-> "", hasValues |-> FALSE, values |-> <<>>]
ErrorEntry == [exists |-> TRUE, status |-> "error", hasValues |-> FALSE, values |-> <<>>]
OkEntries(symbol) ==
    {[exists |-> TRUE, status |-> "ok", hasValues |-> TRUE, values |-> ValuesOf(symbol, ds)] :
        ds \in DateLists(MaxQuotes)}
ErrorEntriesWithValues(symbol) ==
    {[exists |-> TRUE, status |-> "error", hasValues |-> TRUE, values |-> ValuesOf(symbol, ds)] :
        ds \in DateLists(1)}
Entries(symbol) ==
    {Undefined, ErrorEntry} \cup OkEntries(symbol) \cup ErrorEntriesWithValues(symbol)

\* The portfolio prop (the shape of samplePortfolio, lines 40-58).
Portfolios ==
    { [initial |-> Rat(200, 1),
       assets |-> << [symbol |-> "A", portion |-> Rat(1, 2)],
                     [symbol |-> "B", portion |-> Rat(1, 2)] >>],
      [initial |-> Rat(200, 1),
       assets |-> << [symbol |-> "B", portion |-> Rat(1, 4)],
                     [symbol |-> "A", portion |-> Rat(3, 4)] >>],
      [initial |-> Rat(200, 1),
       assets |-> << [symbol |-> "A", portion |-> Rat(1, 1)] >>] }

\* portfolio.assets.map((asset) => asset.symbol), line 161.
stockSymbolsOf(p) == [i \in 1..Len(p.assets) |-> p.assets[i].symbol]

Range(seq) == {seq[i] : i \in 1..Len(seq)}

\* The entries the quote data can hold for `symbol`: none for a symbol the
\* portfolio does not name.
EntriesFor(p, symbol) ==
    IF symbol \in Range(stockSymbolsOf(p)) THEN Entries(symbol) ELSE {Undefined}

\* ------------------------------------------------- JS Map, Set, Array.sort

\* A Map as the sequence of its [key, value] entries in insertion order.
MapHas(m, k) == \E i \in 1..Len(m) : m[i].key = k
MapGet(m, k) == m[CHOOSE i \in 1..Len(m) : m[i].key = k].value
\* The slip of setting a key only while the Map lacks it.
MapSetKeepFirst(m, k, v) ==
    IF MapHas(m, k) THEN m ELSE Append(m, [key |-> k, value |-> v])

\* Map.prototype.set: a present key keeps its place and takes the new value.
MapSet(m, k, v) ==
    IF MapHas(m, k)
    THEN [i \in 1..Len(m) |-> IF m[i].key = k THEN [key |-> k, value |-> v] ELSE m[i]]
    ELSE Append(m, [key |-> k, value |-> v])

\* The slip of collecting the dates in an array: push, whatever it holds.
SetAddAlways(s, x) == Append(s, x)

\* A Set as the sequence of its members in insertion order.
\* Set.prototype.add: a member already present is not added again.
SetAdd(s, x) == IF x \in Range(s) THEN s ELSE Append(s, x)

\* Array.prototype.sort with the comparator (a,b) => new Date(a) - new Date(b)
\* of line 222: a stable sort, here by insertion.
RECURSIVE InsertDate(_, _)
InsertDate(sorted, x) ==
    IF sorted = <<>> THEN <<x>>
    ELSE IF DateMs(x) - DateMs(sorted[Len(sorted)]) >= 0
         THEN Append(sorted, x)
         ELSE Append(InsertDate(SubSeq(sorted, 1, Len(sorted) - 1), x), sorted[Len(sorted)])

RECURSIVE SortDates(_)
SortDates(s) ==
    IF s = <<>> THEN <<>>
    ELSE InsertDate(SortDates(SubSeq(s, 1, Len(s) - 1)), s[Len(s)])

\* ------------------------------------------- updateChartV2: the computation

ValidationErrMsg == "Sorry, but data could not be retrieved for every stock in your portfolio."
FetchErrMsg == "Sorry, but something went wrong."

\* Lines 166-171: the condition under which the forEach callback sets errMsg.
NotRetrieved(entry) == (~entry.exists) \/ entry.status # "ok"

\* Lines 178-179: reading stockData[symbol].values of undefined, .length of
\* an undefined values, or .close of assetData[-1] throws a TypeError.
ThrowsOn(entry) == (~entry.exists) \/ (~entry.hasValues) \/ Len(entry.values) = 0

\* The slip of taking the first record's price: assetData[0].close.
initialPriceFirst(assetData) == assetData[1].close

\* Line 179: assetData[assetData.length - 1].close
initialPrice(assetData) == assetData[Len(assetData)].close

\* Line 180: asset.portion * portfolio.initial
amountInvested(asset, p) == RMul(asset.portion, p.initial)

\* Lines 176-182: the Map sharesBought, as a function of the plan's symbols
\* (sharesBought.set: the last asset of a symbol decides its entry).
sharesBought(p, stockData) ==
    [s \in Range(stockSymbolsOf(p)) |->
        LET i == CHOOSE i \in 1..Len(p.assets) :
                    /\ p.assets[i].symbol = s
                    /\ \A j \in (i + 1)..Len(p.assets) : p.assets[j].symbol # s
        IN RDiv(amountInvested(p.assets[i], p), initialPrice(stockData[s].values))]

\* Lines 196-203 for one symbol: stockValuesByDate.get(symbol) after the
\* first n records of its values.
RECURSIVE valuesByDate(_, _, _)
valuesByDate(values, shares, n) ==
    IF n = 0 THEN <<>>
    ELSE MapSet(valuesByDate(values, shares, n - 1),
                values[n].datetime, RMul(shares, values[n].close))

\* Lines 190-204: the Map stockValuesByDate.
stockValuesByDate(p, stockData) ==
    [s \in Range(stockSymbolsOf(p)) |->
        valuesByDate(stockData[s].values, sharesBought(p, stockData)[s],
                     Len(stockData[s].values))]

\* Lines 195-204: the dates in the order allDates.add meets them: symbol by
\* symbol in plan order, each symbol's records in payload order.
RECURSIVE datesMet(_, _, _)
datesMet(stockSymbols, stockData, n) ==
    IF n = 0 THEN <<>>
    ELSE datesMet(stockSymbols, stockData, n - 1)
         \o [i \in 1..Len(stockData[stockSymbols[n]].values) |->
                stockData[stockSymbols[n]].values[i].datetime]

RECURSIVE addAll(_, _)
addAll(met, n) == IF n = 0 THEN <<>> ELSE SetAdd(addAll(met, n - 1), met[n])

\* Lines 193-204: the Set allDates.
allDates(p, stockData) ==
    LET met == datesMet(stockSymbolsOf(p), stockData, Len(p.assets))
    IN addAll(met, Len(met))

\* Lines 221-222.
datesSorted(p, stockData) == SortDates(allDates(p, stockData))

\* The slip of not carrying a value forward: a symbol without a quote on
\* the date counts as 0.
carriedOrZero(byDate, current, date) ==
    IF MapHas(byDate, date) THEN MapGet(byDate, date) ELSE Zero

\* Lines 236-246 for one symbol: currentValues.get(symbol) after the date.
carried(byDate, current, date) ==
    IF MapHas(byDate, date) THEN MapGet(byDate, date) ELSE current

\* The slip of summing from the second symbol on.
RECURSIVE sumValuesButFirst(_, _, _)
sumValuesButFirst(stockSymbols, currentValues, n) ==
    IF n <= 1 THEN Zero
    ELSE RAdd(sumValuesButFirst(stockSymbols, currentValues, n - 1),
              currentValues[stockSymbols[n]])

\* Lines 248-251: the sum of currentValues over stockSymbols.
RECURSIVE sumValues(_, _, _)
sumValues(stockSymbols, currentValues, n) ==
    IF n = 0 THEN Zero
    ELSE RAdd(sumValues(stockSymbols, currentValues, n - 1), currentValues[stockSymbols[n]])

\* Lines 241-244 and 252-255: a chart point.
Point(date, value) == [x |-> date, y |-> toFixed2(value)]

\* Lines 230-233: the walk's locals before the first date.
walkStart(p) ==
    [currentValues |-> [s \in Range(stockSymbolsOf(p)) |-> Zero],
     portfolioValue |-> Zero,
     data |-> [n \in Range(stockSymbolsOf(p)) \cup {"Total"} |-> <<>>],
     points |-> <<>>]

\* The slip of pushing, on every date, a point for every symbol: its
\* current value, carried or new.
walkStepEveryDate(p, byDate, w, date) ==
    LET syms == stockSymbolsOf(p)
        cv == [s \in Range(syms) |->
                IF MapHas(byDate[s], date) THEN MapGet(byDate[s], date)
                ELSE w.currentValues[s]]
        pv == sumValues(syms, cv, Len(syms))
    IN [currentValues |-> cv,
        portfolioValue |-> pv,
        data |-> [n \in DOMAIN w.data |->
                    Append(w.data[n],
                           [x |-> date, y |-> toFixed2(IF n = "Total" THEN pv ELSE cv[n])])],
        points |-> Append(w.points,
                          [date |-> date, currentValues |-> cv, portfolioValue |-> pv])]

\* Lines 235-257: one iteration of datesSorted.forEach.  points records the
\* locals at the end of each iteration.
walkStep(p, byDate, w, date) ==
    LET syms == stockSymbolsOf(p)
        cv == [s \in Range(syms) |-> carried(byDate[s], w.currentValues[s], date)]
        pv == sumValues(syms, cv, Len(syms))
    IN [currentValues |-> cv,
        portfolioValue |-> pv,
        data |-> [n \in DOMAIN w.data |->
                    IF n = "Total" THEN Append(w.data[n], Point(date, pv))
                    ELSE IF MapHas(byDate[n], date)
                         THEN Append(w.data[n], Point(date, MapGet(byDate[n], date)))
                         ELSE w.data[n]],
        points |-> Append(w.points,
                          [date |-> date, currentValues |-> cv, portfolioValue |-> pv])]

RECURSIVE walkTo(_, _, _, _)
walkTo(p, byDate, dates, n) ==
    IF n = 0 THEN walkStart(p)
    ELSE walkStep(p, byDate, walkTo(p, byDate, dates, n - 1), dates[n])

\* Lines 230-257: the locals after datesSorted.forEach.
walk(p, stockData) ==
    LET dates == datesSorted(p, stockData)
    IN walkTo(p, stockValuesByDate(p, stockData), dates, Len(dates))

\* Line 209 and line 259: the array handed to setChartSeries, from the
\* locals w after the walk.
newChartSeries(p, w) ==
    LET seriesNames == stockSymbolsOf(p) \o <<"Total">>
    IN [i \in 1..Len(seriesNames) |->
            [name |-> seriesNames[i], type |-> "area", data |-> w.data[seriesNames[i]]]]

\* The slip of reading each symbol's value off the first date of the walk
\* and not off the last.
newFinalStockValuesFirst(p, w) ==
    LET syms == stockSymbolsOf(p)
    IN [i \in 1..Len(syms) |->
            [symbol |-> syms[i], value |-> w.points[1].currentValues[syms[i]]]]

\* Lines 260-265: the array handed to setFinalStockValues.
newFinalStockValues(p, w) ==
    LET syms == stockSymbolsOf(p)
    IN [i \in 1..Len(syms) |-> [symbol |-> syms[i], value |-> w.currentValues[syms[i]]]]

\* The slip of bringing the records into ascending order in place, with
\* stockData[symbol].values.reverse().
RECURSIVE Reverse(_)
Reverse(seq) ==
    IF seq = <<>> THEN <<>> ELSE Append(Reverse(Tail(seq)), Head(seq))

stockDataReversed(stockData) ==
    [s \in DOMAIN stockData |-> [stockData[s] EXCEPT !.values = Reverse(@)]]

\* Lines 161-266 read stockData and never write it: the object cached in
\* rawStockData (and, with the sample data, the module's sampleData itself)
\* is after a run what it was before.
stockDataAfterRun(stockData) == stockData

\* ------------------------------------------------------------- the state

VARIABLES
    portfolio,        \* the prop (line 75)
    sampleData,       \* the module's sampleData (line 37); with the toggle
                      \* useSampleData off, the body of a 200 response
    isLoading, chartLoaded, chartSeries, finalTotalValue, finalStockValues,
    errMsg,           \* the useState cells (lines 76-81)
    rawStockData,     \* the useRef cell (line 83): [isNull, current]
    pc,               \* where the invocation of updateChartV2 stands
    remounted,        \* history: the component has been mounted again,
                      \* after a completed run
    firstSeries,      \* history: the chartSeries of the first completed run
    totalValue        \* history: updateChart's local totalValue after its
                      \* forEach (showResults.js lines 498-520)

vars == <<portfolio, sampleData, isLoading, chartLoaded, chartSeries,
          finalTotalValue, finalStockValues, errMsg, rawStockData, pc, remounted,
          firstSeries, totalValue>>

Null == <<>>
NullRef == [isNull |-> TRUE, current |-> [s \in Symbols |-> Undefined]]

\* Lines 76-83: the cells of a freshly mounted component.
Mounted ==
    /\ isLoading = FALSE
    /\ chartLoaded = FALSE
    /\ chartSeries = Null
    /\ finalTotalValue = Zero
    /\ finalStockValues = <<>>
    /\ errMsg = ""
    /\ rawStockData = NullRef
    /\ pc = "idle"

Init ==
    /\ portfolio \in Portfolios
    /\ \E a \in EntriesFor(portfolio, "A"), b \in EntriesFor(portfolio, "B") :
            sampleData = [s \in Symbols |-> IF s = "A" THEN a ELSE b]
    /\ Mounted
    /\ remounted = FALSE
    /\ firstSeries = Null
    /\ totalValue = <<>>

\* Lines 276-314: the "Load chart" button is rendered.
ButtonShown == (~isLoading) /\ ~(chartLoaded /\ chartSeries # Null)

\* The toggle useSampleData of lines 116-117 is a local the build sets: the
\* source has it true, and false by uncommenting line 117.  Either build
\* can be the one that runs.
UseSampleData == BOOLEAN

\* The click on "Load chart": updateChartV2 up to its await (lines 155-157),
\* with getRawStockData up to its return or its await (lines 113-138).
Click ==
    /\ ButtonShown
    /\ pc = "idle"
    /\ isLoading' = TRUE
    /\ \E useSampleData \in UseSampleData :
        IF ~rawStockData.isNull
        THEN pc' = "resume" /\ UNCHANGED rawStockData
        ELSE IF useSampleData
             THEN /\ rawStockData' = [isNull |-> FALSE, current |-> sampleData]
                  /\ pc' = "resume"
             ELSE pc' = "fetching" /\ UNCHANGED rawStockData
    /\ UNCHANGED <<totalValue, portfolio, sampleData, chartLoaded, chartSeries,
                   finalTotalValue, finalStockValues, errMsg, remounted, firstSeries>>

\* Lines 138-143: the response has status 200.
FetchOk ==
    /\ pc = "fetching"
    /\ rawStockData' = [isNull |-> FALSE, current |-> sampleData]
    /\ pc' = "resume"
    /\ UNCHANGED <<totalValue, portfolio, sampleData, isLoading, chartLoaded,
                   chartSeries, finalTotalValue, finalStockValues, errMsg, remounted,
                   firstSeries>>

\* Lines 144-147 and 158-159: another status; getRawStockData returns null
\* and updateChartV2 returns.
FetchFails ==
    /\ pc = "fetching"
    /\ errMsg' = FetchErrMsg
    /\ pc' = "returned"
    /\ UNCHANGED <<totalValue, portfolio, sampleData, isLoading, chartLoaded,
                   chartSeries, finalTotalValue, finalStockValues, rawStockData,
                   remounted, firstSeries>>

\* Lines 166-171: errMsg after the forEach (its return leaves the callback
\* only, not updateChartV2).
errMsgAfterValidation(p, stockData, msg) ==
    IF \E s \in Range(stockSymbolsOf(p)) : NotRetrieved(stockData[s])
    THEN ValidationErrMsg ELSE msg

\* Lines 176-182: some asset's callback throws.
sharesThrow(p, stockData) ==
    \E s \in Range(stockSymbolsOf(p)) : ThrowsOn(stockData[s])

\* Lines 161-182, a TypeError thrown: the promise of updateChartV2 rejects,
\* and of its state updates only the one to errMsg was made.
ResumeThrows ==
    /\ pc = "resume"
    /\ sharesThrow(portfolio, rawStockData.current)
    /\ errMsg' = errMsgAfterValidation(portfolio, rawStockData.current, errMsg)
    /\ pc' = "threw"
    /\ UNCHANGED <<totalValue, portfolio, sampleData, isLoading, chartLoaded,
                   chartSeries, finalTotalValue, finalStockValues, rawStockData,
                   remounted, firstSeries>>

\* Lines 161-269 run to the end.
ResumeCompletes ==
    /\ pc = "resume"
    /\ ~sharesThrow(portfolio, rawStockData.current)
    /\ LET stockData == rawStockData.current
           w == walk(portfolio, stockData)
           series == newChartSeries(portfolio, w)
       IN /\ errMsg' = errMsgAfterValidation(portfolio, stockData, errMsg)
          /\ chartSeries' = series
          /\ finalStockValues' = newFinalStockValues(portfolio, w)
          /\ finalTotalValue' = w.portfolioValue
          /\ firstSeries' = IF firstSeries = Null THEN series ELSE firstSeries
          /\ rawStockData' = [isNull |-> FALSE, current |-> stockDataAfterRun(stockData)]
          /\ sampleData' = stockDataAfterRun(stockData)
    /\ chartLoaded' = TRUE
    /\ isLoading' = FALSE
    /\ pc' = "done"
    /\ UNCHANGED <<totalValue, portfolio, remounted>>

\* The page is left and opened again once the chart was shown: the
\* component is mounted anew (lines 76-83), the module's sampleData stays.
Remount ==
    /\ pc = "done"
    /\ remounted' = TRUE
    /\ isLoading' = FALSE
    /\ chartLoaded' = FALSE
    /\ chartSeries' = Null
    /\ finalTotalValue' = Zero
    /\ finalStockValues' = <<>>
    /\ errMsg' = ""
    /\ rawStockData' = NullRef
    /\ pc' = "idle"
    /\ UNCHANGED <<totalValue, portfolio, sampleData, firstSeries>>

Next ==
    \/ Click
    \/ FetchOk
    \/ FetchFails
    \/ ResumeThrows
    \/ ResumeCompletes
    \/ Remount

Spec == Init /\ [][Next]_vars

\* ------------------------------------ updateChart: the flat list of records
\* The version of the component that reads Marketstack's end-of-day data
\* (src/pages/showResults.js lines 322-605; src/pages/index.js lines 17-241
\* has the same loop, reading datum.close for datum.adj_close).  Line
\* numbers below are those of showResults.js.

\* The adjusted closing prices a record can carry.
AdjCloses == {Rat(50, 1), Rat(80, 1)}

\* The records the data can hold for the plan p: of the symbols requested
\* (line 408), in any order.
Records(p) == [date : Dates, symbol : Range(stockSymbolsOf(p)), adj_close : AdjCloses]

\* The lists stockData["data"] can be.
RecordLists(p) == UNION {[1..n -> Records(p)] : n \in 0..MaxRecords}

\* Lines 424-426.
getAssetValue(currentPrice, initPrice, initialInvestment) ==
    RMul(currentPrice, RDiv(initialInvestment, initPrice))

\* Lines 477-479: the Map initialValues, from the first n assets.
RECURSIVE initialValuesTo(_, _)
initialValuesTo(p, n) ==
    IF n = 0 THEN <<>>
    ELSE MapSet(initialValuesTo(p, n - 1), p.assets[n].symbol,
                RMul(p.assets[n].portion, p.initial))

initialValues(p) == initialValuesTo(p, Len(p.assets))

\* The slip of pushing an entry for every record.
pushTotalValue(total, date, assetValue) ==
    Append(total, [date |-> date, value |-> assetValue])

\* Lines 517-519: a new entry unless the last one has the record's date,
\* then the asset value added to the last entry.
addToTotalValue(total, date, assetValue) ==
    LET t == IF Len(total) = 0 \/ total[Len(total)].date # date
             THEN Append(total, [date |-> date, value |-> Zero])
             ELSE total
    IN [t EXCEPT ![Len(t)].value = RAdd(@, assetValue)]

\* Lines 484-492: the locals before d.forEach.
forEachStart(p) ==
    [initialPrices |-> <<>>,
     valueData |-> [s \in Range(stockSymbolsOf(p)) |-> <<>>],
     totalValue |-> <<>>]

\* Lines 498-520: the callback of d.forEach on one datum.
forEachStep(p, l, datum) ==
    LET prices == IF MapHas(l.initialPrices, datum.symbol) THEN l.initialPrices
                  ELSE MapSet(l.initialPrices, datum.symbol, datum.adj_close)
        assetValue == getAssetValue(datum.adj_close, MapGet(prices, datum.symbol),
                                    MapGet(initialValues(p), datum.symbol))
    IN [initialPrices |-> prices,
        valueData |-> [l.valueData EXCEPT ![datum.symbol] =
                            Append(@, [date |-> datum.date, value |-> assetValue])],
        totalValue |-> addToTotalValue(l.totalValue, datum.date, assetValue)]

RECURSIVE forEachTo(_, _, _)
forEachTo(p, d, n) ==
    IF n = 0 THEN forEachStart(p)
    ELSE forEachStep(p, forEachTo(p, d, n - 1), d[n])

\* Lines 475-520: the locals after d.forEach.
forEach(p, stockData) == forEachTo(p, stockData.data, Len(stockData.data))

\* Lines 524-539: the array handed to setChartSeries.
flatChartSeries(p, l) ==
    LET syms == stockSymbolsOf(p)
        points(values) == [i \in 1..Len(values) |-> Point(values[i].date, values[i].value)]
    IN [i \in 1..Len(syms) |->
            [name |-> syms[i], type |-> "area", data |-> points(l.valueData[syms[i]])]]
       \o <<[name |-> "Total Value", type |-> "area", data |-> points(l.totalValue)]>>

\* Lines 544-550: the array handed to setFinalStockValues.
flatFinalStockValues(p, l) ==
    LET syms == stockSymbolsOf(p)
    IN [i \in 1..Len(syms) |->
            [symbol |-> syms[i],
             value |-> l.valueData[syms[i]][Len(l.valueData[syms[i]])].value]]

\* Line 543: totalValue[totalValue.length-1] is undefined for an empty list,
\* and reading its .value throws a TypeError.
totalThrows(l) == l.totalValue = <<>>

\* Line 548: values[values.length-1] is undefined for a symbol without a
\* record, and reading its .value throws a TypeError.
valuesThrow(p, l) == \E s \in Range(stockSymbolsOf(p)) : l.valueData[s] = <<>>

\* A freshly mounted component (lines 432-436; it has neither errMsg nor
\* rawStockData, which keep one value here), the module's sampleData (line
\* 358) an object with the list "data".
InitFlat ==
    /\ portfolio \in Portfolios
    /\ \E d \in RecordLists(portfolio) : sampleData = [data |-> d]
    /\ Mounted
    /\ remounted = FALSE
    /\ firstSeries = Null
    /\ totalValue = <<>>

\* The click on "Load chart": updateChart up to its await (lines 469-473);
\* getStockData returns sampleData (lines 398-401) or the body of the
\* response (lines 414-416).
ClickFlat ==
    /\ ButtonShown
    /\ pc = "idle"
    /\ isLoading' = TRUE
    /\ pc' = "resume"
    /\ UNCHANGED <<totalValue, portfolio, sampleData, chartLoaded, chartSeries,
                   finalTotalValue, finalStockValues, errMsg, rawStockData,
                   remounted, firstSeries>>

\* Lines 475-548, a TypeError thrown at line 543 or line 548: the promise of
\* updateChart rejects, after the state updates made before the throw.
ResumeFlatThrows ==
    /\ pc = "resume"
    /\ LET l == forEach(portfolio, sampleData)
       IN /\ totalThrows(l) \/ valuesThrow(portfolio, l)
          /\ totalValue' = l.totalValue
          /\ chartSeries' = flatChartSeries(portfolio, l)
          /\ finalTotalValue' = IF totalThrows(l) THEN finalTotalValue
                                ELSE l.totalValue[Len(l.totalValue)].value
    /\ pc' = "threw"
    /\ UNCHANGED <<portfolio, sampleData, isLoading, chartLoaded, finalStockValues,
                   errMsg, rawStockData, remounted, firstSeries>>

\* Lines 475-553 run to the end.
ResumeFlatCompletes ==
    /\ pc = "resume"
    /\ LET l == forEach(portfolio, sampleData)
       IN /\ ~totalThrows(l)
          /\ ~valuesThrow(portfolio, l)
          /\ totalValue' = l.totalValue
          /\ chartSeries' = flatChartSeries(portfolio, l)
          /\ finalTotalValue' = l.totalValue[Len(l.totalValue)].value
          /\ finalStockValues' = flatFinalStockValues(portfolio, l)
    /\ chartLoaded' = TRUE
    /\ isLoading' = FALSE
    /\ pc' = "done"
    /\ UNCHANGED <<portfolio, sampleData, errMsg, rawStockData, remounted, firstSeries>>

NextFlat ==
    \/ ClickFlat
    \/ ResumeFlatThrows
    \/ ResumeFlatCompletes

SpecFlat == InitFlat /\ [][NextFlat]_vars

\* ------------------------------------------------ what the claims speak of

\* The invocation ran to its end and set the chart.
Done == pc = "done"

PlanSymbols == {portfolio.assets[i].symbol : i \in 1..Len(portfolio.assets)}

\* The quote list of a symbol in the data the run read.
QuotesOf(s) == rawStockData.current[s].values

QuoteDates(s) == {QuotesOf(s)[i].datetime : i \in 1..Len(QuotesOf(s))}

\* The union of all symbols' quote dates.
DateUnion == UNION {QuoteDates(s) : s \in PlanSymbols}

\* The data of the chart series called `name`.
SeriesData(name) ==
    chartSeries[CHOOSE i \in 1..Len(chartSeries) : chartSeries[i].name = name].data

\* The positions of `data` whose point is dated d.
PointsOn(data, d) == {i \in 1..Len(data) : data[i].x = d}

\* The closing price of the last record, in payload order, that s has on d.
LastCloseOn(s, d) ==
    LET q == QuotesOf(s)
        i == CHOOSE i \in 1..Len(q) :
                /\ q[i].datetime = d
                /\ \A j \in (i + 1)..Len(q) : q[j].datetime # d
    IN q[i].close

\* The dollars the plan puts into s.
AmountOf(s) ==
    LET a == CHOOSE a \in Range(portfolio.assets) : a.symbol = s
    IN RMul(a.portion, portfolio.initial)

\* The shares the run computed for s.
SharesOf(s) == sharesBought(portfolio, rawStockData.current)[s]

\* The value of s on date d: its shares at the closing price of its latest
\* quote dated d or before, and 0 without such a quote.
ValueAt(s, d) ==
    LET before == {e \in QuoteDates(s) : e <= d}
    IN IF before = {} THEN Zero
       ELSE LET latest == CHOOSE e \in before : \A f \in before : f <= e
            IN RMul(SharesOf(s), LastCloseOn(s, latest))

RECURSIVE SumOver(_, _)
SumOver(S, d) ==
    IF S = {} THEN Zero
    ELSE LET s == CHOOSE s \in S : TRUE
         IN RAdd(ValueAt(s, d), SumOver(S \ {s}, d))

\* Every symbol of the plan was retrieved with status "ok".
AllOk == \A s \in PlanSymbols : rawStockData.current[s].status = "ok"

\* The locals of the walk of the run that set the chart.
Walked == walk(portfolio, rawStockData.current)

\* -------------------------------------------------------------------- C2
\* C2: the Total series has as many points as there are distinct dates in
\* the union of all symbols' quote dates, its dates are those of the union,
\* and they are strictly ascending (so none is repeated).
C2_OnePointPerDate ==
    Done =>
        LET total == SeriesData("Total")
        IN /\ Len(total) = Cardinality(DateUnion)
           /\ {total[i].x : i \in 1..Len(total)} = DateUnion
           /\ \A i, j \in 1..Len(total) : i < j => total[i].x < total[j].x

\* A run over two symbols with different dates, three dates in the union,
\* one symbol with a repeated date and one with its dates not in order.
C2_Witness ==
    /\ Done
    /\ Cardinality(DateUnion) = 3
    /\ \E s, t \in PlanSymbols :
        /\ QuoteDates(s) # QuoteDates(t)
        /\ Len(QuotesOf(s)) > Cardinality(QuoteDates(s))
        /\ Len(QuotesOf(t)) = 3
        /\ QuotesOf(t)[1].datetime < QuotesOf(t)[2].datetime
        /\ QuotesOf(t)[3].datetime < QuotesOf(t)[2].datetime

\* -------------------------------------------------------------------- C4
\* C4: at every emitted date the total portfolio value is the sum over the
\* plan's symbols of the symbol's shares times the closing price of its
\* latest quote on or before that date (0 without one), and the Total
\* series shows that sum to two decimals.
C4_TotalIsSumOfCarried ==
    Done =>
        LET total == SeriesData("Total")
            points == Walked.points
        IN /\ Len(points) = Len(total)
           /\ \A i \in 1..Len(total) :
                /\ points[i].date = total[i].x
                /\ points[i].portfolioValue = SumOver(PlanSymbols, total[i].x)
                /\ total[i].y = toFixed2(SumOver(PlanSymbols, total[i].x))

\* The scenario of the claim: A (portion 0.5) quoted 100 on day 1 and 200 on
\* day 2, B (portion 0.5) quoted 50 on day 1 only, 200 invested: Total is
\* 200.00 on day 1 and 300.00 on day 2.
C4_Witness ==
    /\ Done
    /\ PlanSymbols = {"A", "B"}
    /\ AmountOf("A") = Rat(100, 1)
    /\ QuotesOf("A") = <<[datetime |-> 2, close |-> Rat(200, 1)],
                         [datetime |-> 1, close |-> Rat(100, 1)]>>
    /\ QuotesOf("B") = <<[datetime |-> 1, close |-> Rat(50, 1)]>>
    /\ SeriesData("Total") = <<[x |-> 1, y |-> 20000], [x |-> 2, y |-> 30000]>>

\* ------------------------------------------------------------------- C10
\* C10: a date a symbol's quote list holds more than once appears once in
\* the Total series and once in the symbol's series, with the value of the
\* last record of that date in payload order.
C10_LastWriteWins ==
    Done =>
        \A s \in PlanSymbols : \A d \in QuoteDates(s) :
            /\ Cardinality(PointsOn(SeriesData("Total"), d)) = 1
            /\ Cardinality(PointsOn(SeriesData(s), d)) = 1
            /\ \A i \in PointsOn(SeriesData(s), d) :
                SeriesData(s)[i].y = toFixed2(RMul(SharesOf(s), LastCloseOn(s, d)))

\* A run where a symbol has two records of one date, with different prices.
C10_Witness ==
    /\ Done
    /\ \E s \in PlanSymbols : \E i, j \in 1..Len(QuotesOf(s)) :
        /\ i < j
        /\ QuotesOf(s)[i].datetime = QuotesOf(s)[j].datetime
        /\ QuotesOf(s)[i].close # QuotesOf(s)[j].close

\* -------------------------------------------------------------------- C1
\* Symbol a has quotes on d1 and d3 only, symbol b on d1, d2 and d3.
SparseCase(a, b, d1, d2, d3) ==
    /\ Done
    /\ d1 < d2 /\ d2 < d3
    /\ QuoteDates(a) = {d1, d3}
    /\ QuoteDates(b) = {d1, d2, d3}

Dated(data) == [i \in 1..Len(data) |-> data[i].x]

\* C1 as stated: in the sparse case the emitted dates are d1, d2, d3 and
\* a's series has at d2 the value it has at d1.
C1_AsStated ==
    \A a, b \in PlanSymbols : \A d1, d2, d3 \in Dates :
        (AllOk /\ SparseCase(a, b, d1, d2, d3)) =>
            /\ Dated(SeriesData("Total")) = <<d1, d2, d3>>
            /\ \E i, j \in 1..Len(SeriesData(a)) :
                /\ SeriesData(a)[i].x = d1
                /\ SeriesData(a)[j].x = d2
                /\ SeriesData(a)[j].y = SeriesData(a)[i].y

\* C1, amended: in the sparse case the emitted dates (those of the Total
\* series) are d1, d2, d3; a's own series has points on d1 and d3 only; the
\* value of a that the walk carries at d2 is its value at d1, and Total at d2
\* is that value plus b's value at d2, to two decimals.
C1_CarryForwardInTotal ==
    \A a, b \in PlanSymbols : \A d1, d2, d3 \in Dates :
        SparseCase(a, b, d1, d2, d3) =>
            /\ Dated(SeriesData("Total")) = <<d1, d2, d3>>
            /\ Dated(SeriesData(a)) = <<d1, d3>>
            /\ Walked.points[2].currentValues[a] = Walked.points[1].currentValues[a]
            /\ Walked.points[1].currentValues[a] = RMul(SharesOf(a), LastCloseOn(a, d1))
            /\ SeriesData("Total")[2].y =
                 toFixed2(RAdd(RMul(SharesOf(a), LastCloseOn(a, d1)),
                               RMul(SharesOf(b), LastCloseOn(b, d2))))

C1_Witness ==
    \E a, b \in PlanSymbols : SparseCase(a, b, 1, 2, 3)

\* -------------------------------------------------------------------- C3
\* The closing price at the earliest date of s's quote list.
EarliestClose(s) ==
    LastCloseOn(s, CHOOSE d \in QuoteDates(s) : \A e \in QuoteDates(s) : d <= e)

\* The records of s are in descending date order.
Descending(s) ==
    \A i, j \in 1..Len(QuotesOf(s)) :
        i < j => QuotesOf(s)[i].datetime >= QuotesOf(s)[j].datetime

\* C3 as stated: whatever the order of the records, the shares of a symbol
\* are its amount over the closing price at its earliest date.
C3_AsStated ==
    (AllOk /\ Done) => \A s \in PlanSymbols : SharesOf(s) = RDiv(AmountOf(s), EarliestClose(s))

\* C3, amended: the shares of a symbol are its amount over the closing price
\* of the last record of its list; for a list in descending date order that
\* is the closing price at the earliest date, and the symbol's series then
\* shows the amount itself on that date.
C3_SharesFromLastRecord ==
    Done =>
        \A s \in PlanSymbols :
            /\ SharesOf(s) = RDiv(AmountOf(s), QuotesOf(s)[Len(QuotesOf(s))].close)
            /\ Descending(s) =>
                /\ SharesOf(s) = RDiv(AmountOf(s), EarliestClose(s))
                /\ SeriesData(s)[1].y = toFixed2(AmountOf(s))

\* A run over a list of three records in strictly descending date order.
C3_Witness ==
    /\ Done
    /\ \E s \in PlanSymbols :
        /\ Len(QuotesOf(s)) = 3
        /\ QuotesOf(s)[1].datetime > QuotesOf(s)[2].datetime
        /\ QuotesOf(s)[2].datetime > QuotesOf(s)[3].datetime

\* -------------------------------------------------------------------- C5
RECURSIVE SumY(_, _)
\* The sum of the y of the points that the series of the symbols S have on d.
SumY(S, d) ==
    IF S = {} THEN 0
    ELSE LET s == CHOOSE s \in S : TRUE
             here == PointsOn(SeriesData(s), d)
         IN (IF here = {} THEN 0 ELSE SeriesData(s)[CHOOSE i \in here : TRUE].y)
            + SumY(S \ {s}, d)

RECURSIVE SumLatestY(_, _)
\* The sum over the symbols S of the y of the symbol's latest point dated d
\* or before, 0 for a symbol without one.
SumLatestY(S, d) ==
    IF S = {} THEN 0
    ELSE LET s == CHOOSE s \in S : TRUE
             data == SeriesData(s)
             upTo == {i \in 1..Len(data) : data[i].x <= d}
         IN (IF upTo = {} THEN 0
             ELSE data[CHOOSE i \in upTo : \A j \in upTo : data[j].x <= data[i].x].y)
            + SumLatestY(S \ {s}, d)

SinglePoint(s, d0) ==
    /\ Done
    /\ Len(QuotesOf(s)) = 1
    /\ QuotesOf(s)[1].datetime = d0

\* C6 as stated: the series of a symbol with one quote has the same value,
\* shares times that price, at every emitted date from the quote's on.
C6_AsStated ==
    \A s \in PlanSymbols : \A d0 \in Dates :
        (AllOk /\ SinglePoint(s, d0)) =>
            \A i \in 1..Len(SeriesData("Total")) :
                SeriesData("Total")[i].x >= d0 =>
                    \E j \in PointsOn(SeriesData(s), SeriesData("Total")[i].x) :
                        SeriesData(s)[j].y =
                            toFixed2(RMul(SharesOf(s), QuotesOf(s)[1].close))

\* C6, amended: the series of a symbol with one quote is the one point of
\* that quote, with shares times that price (the amount invested); the value
\* the walk carries for the symbol is that same value at every emitted date
\* from the quote's on, and 0 before.
C6_SinglePointCarried ==
    \A s \in PlanSymbols : \A d0 \in Dates :
        SinglePoint(s, d0) =>
            LET v == RMul(SharesOf(s), QuotesOf(s)[1].close)
            IN /\ v = AmountOf(s)
               /\ SeriesData(s) = <<[x |-> d0, y |-> toFixed2(v)]>>
               /\ \A i \in 1..Len(Walked.points) :
                    Walked.points[i].currentValues[s] =
                        IF Walked.points[i].date >= d0 THEN v ELSE Zero

\* A symbol with one quote, and emitted dates before and after that quote's.
C6_Witness ==
    \E s \in PlanSymbols :
        /\ SinglePoint(s, 2)
        /\ Dated(SeriesData("Total")) = <<1, 2, 3>>

\* -------------------------------------------------------------------- C7
\* The continuation of updateChartV2 after its await has run.
Ran == pc \in {"done", "threw"}

\* The data has no entry for a symbol of the plan, or one whose status is
\* not "ok".
SomeNotRetrieved ==
    \E s \in PlanSymbols :
        \/ ~rawStockData.current[s].exists
        \/ rawStockData.current[s].status # "ok"

\* C7: when a symbol of the plan has no entry or a status other than "ok",
\* the run sets the error message and sets no chart: chartLoaded stays
\* false and chartSeries null.
C7_FailsFast ==
    (Ran /\ SomeNotRetrieved) =>
        /\ errMsg = ValidationErrMsg
        /\ ~chartLoaded
        /\ chartSeries = Null

\* -------------------------------------------------------------------- C8
\* A symbol of the plan has status "ok" and an empty quote list.
SomeEmpty ==
    \E s \in PlanSymbols :
        /\ rawStockData.current[s].exists
        /\ rawStockData.current[s].status = "ok"
        /\ rawStockData.current[s].hasValues
        /\ rawStockData.current[s].values = <<>>

\* C8: when a symbol of the plan has an empty quote list, the run reports
\* an error, renders no chart and does not leave the loading view on.
C8_EmptyListReported ==
    (Ran /\ SomeEmpty) =>
        /\ errMsg # ""
        /\ ~chartLoaded
        /\ ~isLoading

LatestDate == CHOOSE d \in DateUnion : \A e \in DateUnion : e <= d

\* The sum of the values of the first n entries of finalStockValues.
RECURSIVE SumFinal(_)
SumFinal(n) ==
    IF n = 0 THEN Zero ELSE RAdd(SumFinal(n - 1), finalStockValues[n].value)

\* C13: after a completed run over a non-empty date union, finalTotalValue
\* is the unrounded total of the last emitted point, which is dated the
\* latest date; finalStockValues has, for each symbol of the plan in the
\* plan's order, its carried-forward value at the latest date; and
\* finalTotalValue is the sum of the finalStockValues values.
C13_FinalsAreLatest ==
    (Done /\ DateUnion # {}) =>
        LET points == Walked.points
            syms == stockSymbolsOf(portfolio)
        IN /\ points # <<>>
           /\ points[Len(points)].date = LatestDate
           /\ finalTotalValue = points[Len(points)].portfolioValue
           /\ finalTotalValue = SumOver(PlanSymbols, LatestDate)
           /\ Len(finalStockValues) = Len(syms)
           /\ \A i \in 1..Len(syms) :
                /\ finalStockValues[i].symbol = syms[i]
                /\ finalStockValues[i].value = ValueAt(syms[i], LatestDate)
           /\ finalTotalValue = SumFinal(Len(finalStockValues))

\* A completed run over two symbols and three dates, where one symbol has
\* no quote on the latest date (its final value is carried forward) and
\* the total of the latest date differs from that of the first.
C13_Witness ==
    /\ Done
    /\ AllOk
    /\ Cardinality(PlanSymbols) = 2
    /\ Cardinality(DateUnion) = 3
    /\ \E s \in PlanSymbols :
        /\ LatestDate \notin QuoteDates(s)
        /\ QuoteDates(s) # {}
        /\ \E i \in 1..Len(finalStockValues) :
            /\ finalStockValues[i].symbol = s
            /\ finalStockValues[i].value # Zero
    /\ finalTotalValue # Walked.points[1].portfolioValue

\* ------------------------------------------------------------------- C12
\* The invocation of updateChartV2 has returned: at line 159, after
\* getRawStockData returned null, or at the end of the function.
Returned == pc \in {"done", "returned"}

\* C12: once an invocation of updateChartV2 has returned, whether the quotes
\* were retrieved or getRawStockData returned null after a response of
\* another status than 200, isLoading is false.
C12_LoadingEnds == Returned => ~isLoading

\* ------------------------------------------------------------------- C11
\* The flat list of records updateChart read.
FlatData == sampleData.data

\* The distinct dates of the records.
RecordDates == {FlatData[i].date : i \in 1..Len(FlatData)}

\* The asset value of the i-th record: its price times the dollars the plan
\* puts into its symbol over the price of the symbol's first record.
AssetValueOf(i) ==
    LET d == FlatData
        first == CHOOSE j \in 1..i :
                    /\ d[j].symbol = d[i].symbol
                    /\ \A k \in 1..(j - 1) : d[k].symbol # d[i].symbol
    IN RMul(d[i].adj_close, RDiv(AmountOf(d[i].symbol), d[first].adj_close))

\* The sum of the asset values of those of the first n records dated date.
RECURSIVE SumOnDate(_, _)
SumOnDate(date, n) ==
    IF n = 0 THEN Zero
    ELSE IF FlatData[n].date = date
         THEN RAdd(SumOnDate(date, n - 1), AssetValueOf(n))
         ELSE SumOnDate(date, n - 1)

\* totalValue is sorted by date ascending, has exactly one entry per
\* distinct date of the records, and each entry's value is the sum of the
\* asset values of all records with that date.
TotalValueByDate ==
    /\ \A i, j \in 1..Len(totalValue) : i < j => totalValue[i].date < totalValue[j].date
    /\ {totalValue[i].date : i \in 1..Len(totalValue)} = RecordDates
    /\ Len(totalValue) = Cardinality(RecordDates)
    /\ \A i \in 1..Len(totalValue) :
            totalValue[i].value = SumOnDate(totalValue[i].date, Len(FlatData))

\* The records come in non-descending order of date (as the request's
\* sort: "ASC" asks of the provider), the symbols mixed within a date.
DatesAscending ==
    \A i, j \in 1..Len(FlatData) : i < j => FlatData[i].date <= FlatData[j].date

====
